---- MODULE Spec2Model ----
(***************************************************************************)
(* Listing search (lista_imoveis) and detail lookup (detalhe_imovel) of    *)
(* core/views.py, over a store of Imovel rows with their PrecoPorFinalidade*)
(* rows, amenity links and photos.  The Django ORM calls of the views are  *)
(* modelled by the SQL they compile to: every filter() on a multi-valued   *)
(* relation opens a join of its own, order_by() on precos__valor reuses a  *)
(* precos join, distinct() is SELECT DISTINCT over the selected columns,   *)
(* and Paginator slices the ordered rows using queryset.count().           *)
(*                                                                         *)
(* Numbers read with float() and the decimal columns (area_util, valor)    *)
(* are kept in tenths, so that "2.5" is 25 and 150.0 is 1500.              *)
(***************************************************************************)
EXTENDS Integers, Sequences, FiniteSets, TLC

VARIABLES imoveis, resposta

vars == <<imoveis, resposta>>

\* Most Imovel rows in the store.
MaxImoveis == 2

\* Most query parameters one request sets.
MaxFacetas == 2

\* Paginator(imoveis, 12)
per_page == 12

\* Python's None.
None == "None"

\* SQL NULL in a numeric column of a joined row.
NULL == -1

(***************************************************************************)
(* Text: a string matched by icontains / iexact is a tuple of characters.  *)
(***************************************************************************)
Maiusculas == [c \in {"A", "C", "E", "N", "P", "R", "S"} |->
                 CASE c = "A" -> "a" [] c = "C" -> "c" [] c = "E" -> "e"
                   [] c = "N" -> "n" [] c = "P" -> "p" [] c = "R" -> "r"
                   [] c = "S" -> "s"]

lower(t) == [i \in 1..Len(t) |->
               IF t[i] \in DOMAIN Maiusculas THEN Maiusculas[t[i]] ELSE t[i]]

\* needle in haystack, both already in one case
contains(t, n) ==
    \E i \in 0..(Len(t) - Len(n)) : SubSeq(t, i + 1, i + Len(n)) = n

icontains(t, n) == contains(lower(t), lower(n))

iexact(t, n) == lower(t) = lower(n)

RECURSIVE lstrip(_)
lstrip(t) == IF t # <<>> /\ t[1] = " " THEN lstrip(Tail(t)) ELSE t

RECURSIVE rstrip(_)
rstrip(t) == IF t # <<>> /\ t[Len(t)] = " "
             THEN rstrip(SubSeq(t, 1, Len(t) - 1)) ELSE t

strip(t) == rstrip(lstrip(t))

(***************************************************************************)
(* int() and float() on the parameter strings the requests carry.  A       *)
(* result is [ok, v]; ok = FALSE is the ValueError the views catch.        *)
(***************************************************************************)
LiteraisInteiros == [s \in {"1", "2", "3", "75", "150", "250"} |->
                       CASE s = "1" -> 1 [] s = "2" -> 2 [] s = "3" -> 3
                         [] s = "75" -> 75 [] s = "150" -> 150
                         [] s = "250" -> 250]

LiteraisDecimais == [s \in {"2.5"} |-> 25]

int(s) == IF s \in DOMAIN LiteraisInteiros
          THEN [ok |-> TRUE, v |-> LiteraisInteiros[s]]
          ELSE [ok |-> FALSE, v |-> 0]

float(s) == IF s \in DOMAIN LiteraisInteiros
            THEN [ok |-> TRUE, v |-> 10 * LiteraisInteiros[s]]
            ELSE IF s \in DOMAIN LiteraisDecimais
                 THEN [ok |-> TRUE, v |-> LiteraisDecimais[s]]
                 ELSE [ok |-> FALSE, v |-> 0]

\* Python truthiness of a parameter value: None, '' and the empty text are false.
truthy(v) == v # None /\ v # "" /\ <<>> # v

(***************************************************************************)
(* The store.  StatusImovel, Finalidade and the columns are those the      *)
(* views and the admin read.                                               *)
(***************************************************************************)
ATIVO == "ativo"

StatusImovel == {"ativo", "vendido", "alugado", "reservado", "inativo"}

Finalidade == {"venda", "aluguel", "temporada"}

preco(f, v) == [finalidade |-> f, valor |-> v]

\* Two sets of column values an Imovel row is filled with.
Sobrado == [titulo |-> <<"C", "a", "s", "a">>, endereco |-> <<"R", "u", "a">>,
            bairro |-> <<"C", "e", "n">>, cidade |-> <<"S", "p">>,
            descricao |-> <<"s", "o", "l">>, tipo |-> "casa",
            quartos |-> 3, banheiros |-> 2, vagas_garagem |-> 2,
            area_util |-> 1200, mobilia |-> "mobiliado",
            pet_friendly |-> TRUE, aceita_financiamento |-> TRUE]

Quitinete == [titulo |-> <<"A", "p">>, endereco |-> <<"A", "v">>,
              bairro |-> <<"S", "u", "l">>, cidade |-> <<"R", "j">>,
              descricao |-> <<"n", "e", "n">>, tipo |-> "apartamento",
              quartos |-> 1, banheiros |-> 1, vagas_garagem |-> 0,
              area_util |-> 500, mobilia |-> "sem_mobilia",
              pet_friendly |-> FALSE, aceita_financiamento |-> FALSE]

linha(colunas, st, criado, atualizado, infra, nfotos, ps) ==
    colunas @@ [status |-> st, criado_em |-> criado, atualizado_em |-> atualizado,
                infraestrutura |-> infra, fotos |-> nfotos, precos |-> ps]

\* The Imovel rows a store is drawn from.
Catalogo ==
    { linha(Sobrado, "ativo", 2, 2, {1, 2}, 2,
            {preco("venda", 1000), preco("aluguel", 3000)}),
      linha(Sobrado, "ativo", 1, 2, {1, 2, 3}, 1,
            {preco("venda", 6000), preco("aluguel", 4000),
             preco("temporada", 5000)}),
      linha(Quitinete, "ativo", 1, 1, {1}, 0, {}),
      linha(Sobrado, "vendido", 2, 2, {1, 2, 3}, 2, {preco("venda", 2000)}),
      linha(Sobrado, "alugado", 2, 2, {1, 2, 3}, 1, {preco("aluguel", 2000)}),
      linha(Quitinete, "reservado", 1, 2, {1}, 1, {preco("venda", 1000)}),
      linha(Quitinete, "inativo", 1, 1, {}, 0, {}) }

\* A store: rows 1..n in primary-key order.
Lojas == UNION { [1..n -> Catalogo] : n \in 0..MaxImoveis }

pks(loja) == DOMAIN loja

(***************************************************************************)
(* A request: request.GET, a QueryDict mapping each key to the list of     *)
(* values given for it (empty when the key is absent).                     *)
(***************************************************************************)
Chaves == {"busca", "finalidade", "tipo", "cidade", "bairro", "quartos",
           "banheiros", "vagas", "area_min", "preco_min", "preco_max",
           "mobilia", "pet_friendly", "financiamento", "com_fotos",
           "infraestrutura", "ordenacao", "page"}

\* QueryDict.get(key, default): the last value given, or the default.
get(GET, chave, padrao) ==
    IF GET[chave] = <<>> THEN padrao ELSE GET[chave][Len(GET[chave])]

\* QueryDict.getlist(key)
getlist(GET, chave) == GET[chave]

\* The value lists the requests give each key.
Valores(chave) ==
    CASE chave = "busca" -> {<< <<" ", "e", "N", " ">> >>}
      [] chave = "finalidade" -> {<<"aluguel">>}
      [] chave = "tipo" -> {<<"casa">>}
      [] chave = "cidade" -> {<< <<"s", "P">> >>}
      [] chave = "bairro" -> {<< <<"E", "n">> >>}
      [] chave = "quartos" -> {<<"2">>, <<"abc">>, <<"2.5">>}
      [] chave = "banheiros" -> {<<"2">>, <<"">>}
      [] chave = "vagas" -> {<<"2">>, <<"abc">>}
      [] chave = "area_min" -> {<<"75">>, <<"abc">>}
      [] chave = "preco_min" -> {<<"150">>, <<"abc">>}
      [] chave = "preco_max" -> {<<"250">>, <<"abc">>}
      [] chave = "mobilia" -> {<<"mobiliado">>}
      [] chave = "pet_friendly" -> {<<"true">>}
      [] chave = "financiamento" -> {<<"true">>}
      [] chave = "com_fotos" -> {<<"true">>}
      [] chave = "infraestrutura" ->
            {<<"1">>, <<"1", "2">>, <<"1", "2", "3">>}
      [] chave = "ordenacao" ->
            {<<"preco_menor">>, <<"preco_maior">>, <<"mais_recentes">>,
             <<"maior_area">>, <<"bogus">>}
      [] chave = "page" -> {<<"2">>}

SemParametros == [c \in Chaves |-> <<>>]

dadas(GET) == {c \in Chaves : GET[c] # <<>>}

RECURSIVE ComAte(_)
ComAte(n) ==
    IF n = 0 THEN {SemParametros}
    ELSE LET menos == ComAte(n - 1)
         IN  menos \cup UNION { { [g EXCEPT ![c] = v] :
                                    g \in menos, v \in Valores(c) } :
                                  c \in Chaves }

\* Every request that sets at most MaxFacetas keys.
Requisicoes == { g \in ComAte(MaxFacetas) : Cardinality(dadas(g)) <= MaxFacetas }

(***************************************************************************)
(* lista_imoveis: the WHERE clause.  Each definition is one filter() call  *)
(* of the view, as a condition on the Imovel row im.                       *)
(***************************************************************************)
\* filtro_status with only the inactive rows left out
filtro_status_nao_inativo(im) == im.status # "inativo"

filtro_status(im) == im.status = ATIVO

filtro_busca(im, GET) ==
    LET busca == strip(get(GET, "busca", <<>>))
    IN  truthy(busca) =>
          \/ icontains(im.titulo, busca)
          \/ icontains(im.endereco, busca)
          \/ icontains(im.bairro, busca)
          \/ icontains(im.cidade, busca)
          \/ icontains(im.descricao, busca)

filtro_tipo(im, GET) ==
    LET tipo == get(GET, "tipo", None)
    IN  truthy(tipo) => im.tipo = tipo

filtro_cidade(im, GET) ==
    LET cidade == get(GET, "cidade", None)
    IN  truthy(cidade) => iexact(im.cidade, cidade)

filtro_bairro(im, GET) ==
    LET bairro == get(GET, "bairro", None)
    IN  truthy(bairro) => icontains(im.bairro, bairro)

\* filtro_quartos with a value that does not parse matching no row
filtro_quartos_estrito(im, GET) ==
    LET quartos == get(GET, "quartos", None)
    IN  truthy(quartos) => (int(quartos).ok /\ im.quartos >= int(quartos).v)

filtro_quartos(im, GET) ==
    LET quartos == get(GET, "quartos", None)
    IN  (truthy(quartos) /\ int(quartos).ok) => im.quartos >= int(quartos).v

filtro_banheiros(im, GET) ==
    LET banheiros == get(GET, "banheiros", None)
    IN  (truthy(banheiros) /\ int(banheiros).ok) =>
            im.banheiros >= int(banheiros).v

filtro_vagas(im, GET) ==
    LET vagas == get(GET, "vagas", None)
    IN  (truthy(vagas) /\ int(vagas).ok) => im.vagas_garagem >= int(vagas).v

filtro_area_min(im, GET) ==
    LET area_min == get(GET, "area_min", None)
    IN  (truthy(area_min) /\ float(area_min).ok) =>
            im.area_util >= float(area_min).v

filtro_mobilia(im, GET) ==
    LET mobilia == get(GET, "mobilia", None)
    IN  truthy(mobilia) => im.mobilia = mobilia

filtro_pet_friendly(im, GET) ==
    get(GET, "pet_friendly", None) = "true" => im.pet_friendly

filtro_financiamento(im, GET) ==
    get(GET, "financiamento", None) = "true" => im.aceita_financiamento

\* fotos__isnull=False: an inner join on the photos of the row
filtro_com_fotos(im, GET) ==
    get(GET, "com_fotos", None) = "true" => im.fotos > 0

(***************************************************************************)
(* The joins on precos.  filter(precos__...) on the reverse relation opens *)
(* a new join for every call, so each condition is on a join of its own:   *)
(* a row qualifies when, for every condition, SOME price of it satisfies   *)
(* that condition.                                                         *)
(***************************************************************************)
juncoes_precos(GET) ==
    LET finalidade == get(GET, "finalidade", None)
        preco_min == get(GET, "preco_min", None)
        preco_max == get(GET, "preco_max", None)
    IN  (IF truthy(finalidade)
         THEN <<[campo |-> "finalidade", v |-> finalidade]>> ELSE <<>>)
        \o
        (IF truthy(preco_min) /\ float(preco_min).ok
         THEN <<[campo |-> "valor__gte", v |-> float(preco_min).v]>> ELSE <<>>)
        \o
        (IF truthy(preco_max) /\ float(preco_max).ok
         THEN <<[campo |-> "valor__lte", v |-> float(preco_max).v]>> ELSE <<>>)

satisfaz(p, j) ==
    CASE j.campo = "finalidade" -> p.finalidade = j.v
      [] j.campo = "valor__gte" -> p.valor >= j.v
      [] j.campo = "valor__lte" -> p.valor <= j.v

filtro_precos(im, GET) ==
    LET js == juncoes_precos(GET)
    IN  \A k \in 1..Len(js) : \E p \in im.precos : satisfaz(p, js[k])

\* One filter(infraestrutura=int(infra_id)) per id that parses.
filtro_infraestrutura(im, GET) ==
    LET infraestrutura_ids == getlist(GET, "infraestrutura")
    IN  \A k \in 1..Len(infraestrutura_ids) :
            int(infraestrutura_ids[k]).ok =>
                int(infraestrutura_ids[k]).v \in im.infraestrutura

\* The Imovel rows the filtered queryset holds.
filtrados(loja, GET) ==
    { pk \in pks(loja) :
        /\ filtro_status(loja[pk])
        /\ filtro_busca(loja[pk], GET)
        /\ filtro_precos(loja[pk], GET)
        /\ filtro_tipo(loja[pk], GET)
        /\ filtro_cidade(loja[pk], GET)
        /\ filtro_bairro(loja[pk], GET)
        /\ filtro_quartos(loja[pk], GET)
        /\ filtro_banheiros(loja[pk], GET)
        /\ filtro_vagas(loja[pk], GET)
        /\ filtro_area_min(loja[pk], GET)
        /\ filtro_mobilia(loja[pk], GET)
        /\ filtro_pet_friendly(loja[pk], GET)
        /\ filtro_financiamento(loja[pk], GET)
        /\ filtro_com_fotos(loja[pk], GET)
        /\ filtro_infraestrutura(loja[pk], GET) }

(***************************************************************************)
(* Ordering.  What the database and the Django release leave open is the   *)
(* environment amb of a request:                                           *)
(*   alias: order_by('precos__valor') reuses a precos join the filters     *)
(*          opened, the first or the last of them depending on the release *)
(*          (none open: it adds a LEFT OUTER JOIN of its own);             *)
(*   nulos: whether NULL sorts as the smallest or as the largest value.    *)
(* Rows equal on the ORDER BY columns come out in primary-key order, the   *)
(* order the table holds them in; Lojas holds every arrangement of the     *)
(* same rows, so every order of ties is the result in some store.          *)
(***************************************************************************)
ordenacao_aplicada(GET) ==
    LET ordenacao == get(GET, "ordenacao", "relevancia")
    IN  IF ordenacao \in {"preco_menor", "preco_maior", "mais_recentes",
                          "maior_area"}
        THEN ordenacao
        ELSE "relevancia"

por_preco(GET) == ordenacao_aplicada(GET) \in {"preco_menor", "preco_maior"}

Ambientes(GET) ==
    [alias : IF por_preco(GET) /\ Len(juncoes_precos(GET)) > 1
             THEN {"primeira", "ultima"} ELSE {"primeira"},
     nulos : IF por_preco(GET) /\ juncoes_precos(GET) = <<>>
             THEN {"menor", "maior"} ELSE {"menor"}]

\* The precos.valor values joined to the row im for ORDER BY.
valores_ordem(im, GET, amb) ==
    LET js == juncoes_precos(GET)
        j  == IF amb.alias = "primeira" THEN js[1] ELSE js[Len(js)]
    IN  IF js = <<>>
        THEN IF im.precos = {} THEN {NULL} ELSE {p.valor : p \in im.precos}
        ELSE {p.valor : p \in {q \in im.precos : satisfaz(q, j)}}

\* distinct(): SELECT DISTINCT over the Imovel columns and, when the order
\* is by price, the precos.valor column that order_by adds to the SELECT.
distinct(achados, loja, GET, amb) ==
    IF por_preco(GET)
    THEN UNION { { [pk |-> pk, valor |-> v] :
                     v \in valores_ordem(loja[pk], GET, amb) } :
                 pk \in achados }
    ELSE { [pk |-> pk, valor |-> NULL] : pk \in achados }

menor(x, y, amb) ==
    CASE x = NULL /\ y = NULL -> FALSE
      [] x = NULL /\ y # NULL -> amb.nulos = "menor"
      [] x # NULL /\ y = NULL -> amb.nulos = "maior"
      [] OTHER -> x < y

\* order_by with the default order on criado_em alone
order_by_sem_desempate(a, b, loja, ordenacao, amb) ==
    LET ia == loja[a.pk]
        ib == loja[b.pk]
    IN  CASE ordenacao = "preco_menor" -> menor(a.valor, b.valor, amb)
          [] ordenacao = "preco_maior" -> menor(b.valor, a.valor, amb)
          [] ordenacao = "mais_recentes" -> ia.criado_em > ib.criado_em
          [] ordenacao = "maior_area" -> ia.area_util > ib.area_util
          [] OTHER -> ia.criado_em > ib.criado_em

\* Row a comes strictly before row b under order_by(...).
order_by(a, b, loja, ordenacao, amb) ==
    LET ia == loja[a.pk]
        ib == loja[b.pk]
    IN  CASE ordenacao = "preco_menor" -> menor(a.valor, b.valor, amb)
          [] ordenacao = "preco_maior" -> menor(b.valor, a.valor, amb)
          [] ordenacao = "mais_recentes" -> ia.criado_em > ib.criado_em
          [] ordenacao = "maior_area" -> ia.area_util > ib.area_util
          [] OTHER -> \/ ia.criado_em > ib.criado_em
                      \/ /\ ia.criado_em = ib.criado_em
                         /\ ia.atualizado_em > ib.atualizado_em

antes(a, b, loja, ordenacao, amb) ==
    \/ order_by(a, b, loja, ordenacao, amb)
    \/ /\ ~order_by(b, a, loja, ordenacao, amb)
       /\ a.pk < b.pk

\* The rows of the query over the Imovel rows achados, in order, each as
\* the pk of its Imovel.
RECURSIVE em_ordem(_, _, _, _)
em_ordem(ls, loja, ordenacao, amb) ==
    IF ls = {} THEN <<>>
    ELSE LET a == CHOOSE x \in ls :
                    \A y \in ls \ {x} : antes(x, y, loja, ordenacao, amb)
         IN  <<a.pk>> \o em_ordem(ls \ {a}, loja, ordenacao, amb)

ordenados(achados, loja, GET, amb) ==
    em_ordem(distinct(achados, loja, GET, amb), loja,
             ordenacao_aplicada(GET), amb)

(***************************************************************************)
(* Paginator(imoveis, 12).get_page(page_number)                            *)
(***************************************************************************)
\* queryset.count(): COUNT(*) over the DISTINCT rows with the ordering (and
\* the column it adds) cleared, that is the number of Imovel rows found.
count(achados) == Cardinality(achados)

num_pages(n) == IF n = 0 THEN 1 ELSE (n + per_page - 1) \div per_page

\* PageNotAnInteger gives page 1, EmptyPage the last page.
get_page_number(page_number, n) ==
    IF page_number = None \/ ~int(page_number).ok THEN 1
    ELSE IF int(page_number).v < 1 \/ int(page_number).v > num_pages(n)
         THEN num_pages(n)
         ELSE int(page_number).v

\* Paginator.page(number): object_list[bottom:top]
page(object_list, number, n) ==
    LET bottom == (number - 1) * per_page
        top    == IF bottom + per_page >= n THEN n ELSE bottom + per_page
    IN  SubSeq(object_list, bottom + 1,
               IF top < Len(object_list) THEN top ELSE Len(object_list))

filtros_aplicados(GET) ==
    [busca |-> strip(get(GET, "busca", <<>>)),
     finalidade |-> get(GET, "finalidade", None),
     tipo |-> get(GET, "tipo", None),
     cidade |-> get(GET, "cidade", None),
     bairro |-> get(GET, "bairro", None),
     quartos |-> get(GET, "quartos", None),
     banheiros |-> get(GET, "banheiros", None),
     vagas |-> get(GET, "vagas", None),
     area_min |-> get(GET, "area_min", None),
     preco_min |-> get(GET, "preco_min", None),
     preco_max |-> get(GET, "preco_max", None),
     mobilia |-> get(GET, "mobilia", None),
     pet_friendly |-> get(GET, "pet_friendly", None),
     financiamento |-> get(GET, "financiamento", None),
     com_fotos |-> get(GET, "com_fotos", None),
     infraestrutura |-> getlist(GET, "infraestrutura"),
     ordenacao |-> ordenacao_aplicada(GET)]

\* paginator.count and paginator.get_page(page_number) over the queryset
paginator(loja, GET, amb) ==
    LET achados == filtrados(loja, GET)
        n       == count(achados)
        number  == get_page_number(get(GET, "page", None), n)
    IN  [page_obj |->
            [number |-> number,
             object_list |->
                 page(ordenados(achados, loja, GET, amb), number, n)],
         total_imoveis |-> n]

\* The context lista_imoveis renders.
lista_imoveis(loja, GET, amb) ==
    LET p == paginator(loja, GET, amb)
    IN  [view |-> "lista_imoveis", GET |-> GET, amb |-> amb,
         page_obj |-> p.page_obj,
         total_imoveis |-> p.total_imoveis,
         filtros_aplicados |-> filtros_aplicados(GET)]

(***************************************************************************)
(* detalhe_imovel: get_object_or_404(Imovel, pk=pk, status=ATIVO)          *)
(***************************************************************************)
\* get_object_or_404 looking the row up by pk alone
get_object_sem_status(loja, pk) ==
    IF pk \in pks(loja)
    THEN [ok |-> TRUE, obj |-> pk]
    ELSE [ok |-> FALSE, obj |-> 0]

\* [ok, obj]; ok = FALSE is the Http404 raised.
get_object_or_404(loja, pk) ==
    IF pk \in pks(loja) /\ loja[pk].status = ATIVO
    THEN [ok |-> TRUE, obj |-> pk]
    ELSE [ok |-> FALSE, obj |-> 0]

detalhe_imovel(loja, pk) ==
    LET imovel == get_object_or_404(loja, pk)
    IN  IF ~imovel.ok
        THEN [view |-> "detalhe_imovel", pk |-> pk, status_code |-> 404]
        ELSE [view |-> "detalhe_imovel", pk |-> pk, status_code |-> 200,
              imovel |-> imovel.obj,
              imoveis_similares |->
                  { o \in pks(loja) \ {imovel.obj} :
                      /\ loja[o].tipo = loja[imovel.obj].tipo
                      /\ loja[o].cidade = loja[imovel.obj].cidade
                      /\ loja[o].status = ATIVO }]

(***************************************************************************)
(* The state machine: a store, and the response to the last request.       *)
(***************************************************************************)
SemResposta == [view |-> "nenhuma"]

Init ==
    /\ imoveis \in Lojas
    /\ resposta = SemResposta

\* A request is served once the response to the one before it is out.
ListaImoveis ==
    /\ resposta = SemResposta
    /\ \E GET \in Requisicoes :
        \E amb \in Ambientes(GET) :
            resposta' = lista_imoveis(imoveis, GET, amb)
    /\ UNCHANGED imoveis

DetalheImovel ==
    /\ resposta = SemResposta
    /\ \E pk \in 1..(MaxImoveis + 1) :
        resposta' = detalhe_imovel(imoveis, pk)
    /\ UNCHANGED imoveis

\* return render(...): the response leaves the view.
Render ==
    /\ resposta # SemResposta
    /\ resposta' = SemResposta
    /\ UNCHANGED imoveis

Next == ListaImoveis \/ DetalheImovel \/ Render

Spec == Init /\ [][Next]_vars

(***************************************************************************)
(* What the claims speak of.                                               *)
(***************************************************************************)
EhLista == resposta.view = "lista_imoveis"

EhDetalhe == resposta.view = "detalhe_imovel"

ativos(loja) == {pk \in pks(loja) : loja[pk].status = "ativo"}

elementos(seq) == {seq[i] : i \in 1..Len(seq)}

\* seq with only the first occurrence of each element kept
RECURSIVE primeiras(_)
primeiras(seq) ==
    IF seq = <<>> THEN <<>>
    ELSE LET resto == primeiras(SubSeq(seq, 1, Len(seq) - 1))
             ult   == seq[Len(seq)]
         IN  IF ult \in elementos(resto) THEN resto ELSE Append(resto, ult)

\* pages 1..p of the request, one after the other
RECURSIVE paginas_ate(_, _, _, _)
paginas_ate(p, loja, GET, amb) ==
    IF p = 0 THEN <<>>
    ELSE paginas_ate(p - 1, loja, GET, amb)
         \o page(ordenados(filtrados(loja, GET), loja, GET, amb), p,
                 count(filtrados(loja, GET)))

todas_paginas(loja, GET, amb) ==
    paginas_ate(num_pages(count(filtrados(loja, GET))), loja, GET, amb)

\* the ordered rows of a request with only the first row of each listing
deduplicados(loja, GET, amb) ==
    primeiras(ordenados(filtrados(loja, GET), loja, GET, amb))

\* listings, their order and the total count of a response
nucleo(r) == [object_list |-> r.page_obj.object_list,
              total_imoveis |-> r.total_imoveis]

sem(GET, chave) == [GET EXCEPT ![chave] = <<>>]

(***************************************************************************)
(* The claims.                                                             *)
(***************************************************************************)

\* C1: under every sort order the pages of a request, one after the other,
\* hold every listing found exactly once, at the position of its earliest
\* row in the sort order: they are the ordered rows with only the first row
\* of each listing kept.
C1_DeduplicadoEmTodaOrdenacao ==
    EhLista =>
        todas_paginas(imoveis, resposta.GET, resposta.amb)
            = deduplicados(imoveis, resposta.GET, resposta.amb)

\* C2: with preco_min and preco_max both given and numeric, every listing
\* returned has one price p with preco_min <= p.valor <= preco_max.
C2_UmPrecoDentroDaFaixa ==
    LET preco_min == get(resposta.GET, "preco_min", None)
        preco_max == get(resposta.GET, "preco_max", None)
    IN  (/\ EhLista
         /\ preco_min \in DOMAIN LiteraisInteiros
         /\ preco_max \in DOMAIN LiteraisInteiros)
        => \A pk \in elementos(resposta.page_obj.object_list) :
              \E p \in imoveis[pk].precos :
                  /\ 10 * LiteraisInteiros[preco_min] <= p.valor
                  /\ p.valor <= 10 * LiteraisInteiros[preco_max]

\* C3: every listing in a returned page has status ativo, whatever the
\* facets, the sort order and the page.
C3_SomenteAtivos ==
    EhLista =>
        \A pk \in elementos(resposta.page_obj.object_list) :
            /\ pk \in pks(imoveis)
            /\ imoveis[pk].status = "ativo"

\* C3 witness: a page with listings, from a store holding a row that is not
\* ativo and has every amenity, under a request that filters.
C3_Testemunha ==
    /\ EhLista
    /\ resposta.page_obj.object_list # <<>>
    /\ dadas(resposta.GET) # {}
    /\ \E pk \in pks(imoveis) :
          /\ imoveis[pk].status = "vendido"
          /\ imoveis[pk].infraestrutura = {1, 2, 3}

\* C4: with amenity ids S, all integers, an active listing that passes the
\* other filters is on a page of the result if and only if its amenities
\* include every id of S.
C4_ConjuncaoDeInfraestrutura ==
    LET ids == getlist(resposta.GET, "infraestrutura")
        S   == {LiteraisInteiros[ids[k]] : k \in 1..Len(ids)}
    IN  (/\ EhLista
         /\ ids # <<>>
         /\ \A k \in 1..Len(ids) : ids[k] \in DOMAIN LiteraisInteiros)
        => \A pk \in filtrados(imoveis, sem(resposta.GET, "infraestrutura")) :
              (pk \in elementos(todas_paginas(imoveis, resposta.GET,
                                              resposta.amb)))
                  <=> (S \subseteq imoveis[pk].infraestrutura)

\* The numeric facets, and a value given that is no number of the facet's type.
NumericasInt == {"quartos", "banheiros", "vagas"}

NumericasFloat == {"area_min", "preco_min", "preco_max"}

malformada(GET, chave) ==
    /\ GET[chave] # <<>>
    /\ get(GET, chave, None) \notin DOMAIN LiteraisInteiros
    /\ chave \in NumericasFloat =>
          get(GET, chave, None) \notin DOMAIN LiteraisDecimais

\* C5: a numeric facet whose value does not parse gives the listings, order
\* and total count of the same request without that facet.
C5_MalformadaIgualAOmitida ==
    EhLista =>
        \A chave \in NumericasInt \cup NumericasFloat :
            malformada(resposta.GET, chave) =>
                nucleo(resposta)
                    = nucleo(paginator(imoveis, sem(resposta.GET, chave),
                                       resposta.amb))

\* C5 witness: quartos does not parse, a second facet is given and applied
\* (it leaves some active listings out and keeps some).
C5_Testemunha ==
    /\ EhLista
    /\ malformada(resposta.GET, "quartos")
    /\ get(resposta.GET, "quartos", None) # ""
    /\ Cardinality(dadas(resposta.GET)) = 2
    /\ resposta.total_imoveis > 0
    /\ resposta.total_imoveis < Cardinality(ativos(imoveis))

\* Whether lista_imoveis applied the filter of a facet, and whether the
\* response echoes the facet as set.
aplicada(GET, chave) ==
    CASE chave \in NumericasInt \cup NumericasFloat ->
            GET[chave] # <<>> /\ ~malformada(GET, chave)
      [] chave \in {"pet_friendly", "financiamento", "com_fotos"} ->
            get(GET, chave, None) = "true"
      [] chave = "infraestrutura" ->
            \E k \in 1..Len(GET[chave]) :
                GET[chave][k] \in DOMAIN LiteraisInteiros
      [] chave = "busca" -> strip(get(GET, chave, <<>>)) # <<>>
      [] OTHER -> truthy(get(GET, chave, None))

ecoada(r, chave) ==
    IF chave = "infraestrutura"
    THEN r.filtros_aplicados[chave] # <<>>
    ELSE truthy(r.filtros_aplicados[chave])

\* C6: a facet is echoed as set if and only if its filter was applied (a
\* numeric facet whose value did not parse is not echoed as a value), and
\* ordenacao is echoed as one of the five orders.
C6_EcoSomenteDoAplicado ==
    EhLista =>
        /\ resposta.filtros_aplicados.ordenacao
              \in {"relevancia", "preco_menor", "preco_maior", "mais_recentes",
                   "maior_area"}
        /\ \A chave \in Chaves \ {"ordenacao", "page"} :
              ecoada(resposta, chave) <=> aplicada(resposta.GET, chave)

OrdenacoesConhecidas ==
    {"relevancia", "preco_menor", "preco_maior", "mais_recentes", "maior_area"}

\* criado_em descending, then atualizado_em descending
em_relevancia(loja, seq) ==
    \A i \in 1..Len(seq) : \A j \in (i + 1)..Len(seq) :
        \/ loja[seq[i]].criado_em > loja[seq[j]].criado_em
        \/ /\ loja[seq[i]].criado_em = loja[seq[j]].criado_em
           /\ loja[seq[i]].atualizado_em >= loja[seq[j]].atualizado_em

\* C7: an unknown or absent ordenacao returns the listings of
\* ordenacao=relevancia in the same order, criado_em descending then
\* atualizado_em descending, and is echoed as relevancia.
C7_OrdenacaoDesconhecidaERelevancia ==
    (EhLista /\ get(resposta.GET, "ordenacao", None) \notin OrdenacoesConhecidas)
    => /\ resposta.filtros_aplicados.ordenacao = "relevancia"
       /\ em_relevancia(imoveis, resposta.page_obj.object_list)
       /\ nucleo(resposta)
            = nucleo(paginator(imoveis,
                               [resposta.GET EXCEPT
                                   !["ordenacao"] = <<"relevancia">>],
                               resposta.amb))

\* C7 witness: ordenacao=bogus returning two listings created at the same
\* time and updated at different times.
C7_Testemunha ==
    /\ EhLista
    /\ get(resposta.GET, "ordenacao", None) = "bogus"
    /\ Len(resposta.page_obj.object_list) >= 2
    /\ LET l == resposta.page_obj.object_list
       IN  /\ imoveis[l[1]].criado_em = imoveis[l[2]].criado_em
           /\ imoveis[l[1]].atualizado_em > imoveis[l[2]].atualizado_em
           /\ l[1] > l[2]

\* C8: with N the total reported and p the page returned, the page holds
\* min(12, N - 12(p-1)) listings, positions 12(p-1)+1 .. min(12p, N) of the
\* ordered result with each listing kept once.
C8_PaginaDoResultadoDeduplicado ==
    EhLista =>
        LET p   == resposta.page_obj.number
            N   == resposta.total_imoveis
            fim == IF per_page * p < N THEN per_page * p ELSE N
            ded == deduplicados(imoveis, resposta.GET, resposta.amb)
        IN  /\ Len(resposta.page_obj.object_list) = fim - per_page * (p - 1)
            /\ resposta.page_obj.object_list
                  = SubSeq(ded, per_page * (p - 1) + 1, fim)

\* C9: the detail lookup answers NotFound if and only if the store has no
\* row with that pk and status ativo; an active row is returned, and the
\* store is left as it was.
C9_DetalheNotFound ==
    [][ (resposta'.view = "detalhe_imovel") =>
          /\ imoveis' = imoveis
          /\ (resposta'.status_code = 404)
                <=> ~(\E pk \in pks(imoveis) :
                        pk = resposta'.pk /\ imoveis[pk].status = "ativo")
          /\ (resposta'.status_code # 404) =>
                (resposta'.status_code = 200 /\ resposta'.imovel = resposta'.pk)
      ]_vars

\* C9 witness: NotFound for the pk of a row that exists and is vendido.
C9_Testemunha ==
    /\ EhDetalhe
    /\ resposta.status_code = 404
    /\ resposta.pk \in pks(imoveis)
    /\ imoveis[resposta.pk].status = "vendido"

\* C10: with finalidade and a numeric preco_min and/or preco_max, every
\* listing returned has one price of that finalidade within the bound(s).
C10_FinalidadeEPrecoNoMesmoPreco ==
    LET finalidade == get(resposta.GET, "finalidade", None)
        preco_min  == get(resposta.GET, "preco_min", None)
        preco_max  == get(resposta.GET, "preco_max", None)
        tem_min    == preco_min \in DOMAIN LiteraisInteiros
        tem_max    == preco_max \in DOMAIN LiteraisInteiros
    IN  (EhLista /\ finalidade \in Finalidade /\ (tem_min \/ tem_max))
        => \A pk \in elementos(resposta.page_obj.object_list) :
              \E p \in imoveis[pk].precos :
                  /\ p.finalidade = finalidade
                  /\ tem_min => 10 * LiteraisInteiros[preco_min] <= p.valor
                  /\ tem_max => p.valor <= 10 * LiteraisInteiros[preco_max]

====
